---- MODULE Spec2Model ----
(***************************************************************************)
(* A model of worldiety/jsonptr: the typed JSON value tree (types.go), the *)
(* pointer resolver Eval and the pointer mutator Put (put.go), the         *)
(* diagnostic renderer (baseMsg, evalMsg, evalMsgArr), the RFC 6901 token  *)
(* escaping (Escape, Unescape) and the coercion Value.Bool.                *)
(*                                                                         *)
(* Text is modelled character by character: a Go string is a sequence of   *)
(* one-character strings, so that splitting, escaping, integer parsing and *)
(* the column geometry of the diagnostics are computed, not assumed.       *)
(*                                                                         *)
(* Containers have reference semantics in the Go code (pointers to Obj and *)
(* Arr): the model keeps them in a heap (a sequence of cells) and a        *)
(* container value is a reference into it.                                 *)
(***************************************************************************)
EXTENDS Integers, Sequences, FiniteSets, TLC

VARIABLES heap, root, puts, ev, fin, fout

vars == <<heap, root, puts, ev, fin, fout>>

(***************************************************************************)
(* Bounds of the model.                                                    *)
(***************************************************************************)
\* the number of Put calls of one run
MaxPuts == 2
\* the length of the strings given to Escape / Unescape
MaxStrLen == 4
\* the number of tokens given to baseMsg
MaxTokens == 3

(***************************************************************************)
(* Text.                                                                   *)
(***************************************************************************)
Digits == <<"0", "1", "2", "3", "4", "5", "6", "7", "8", "9">>

IsDigit(c) == \E i \in 1..10 : Digits[i] = c

DigitVal(c) == (CHOOSE i \in 1..10 : Digits[i] = c) - 1

\* the order of the bytes the model's keys are made of (their ASCII codes)
Ord(c) ==
  CASE c = " " -> 32
    [] c = "+" -> 43
    [] c = "-" -> 45
    [] c = "/" -> 47
    [] IsDigit(c) -> 48 + DigitVal(c)
    [] c = "a" -> 97
    [] c = "b" -> 98
    [] c = "c" -> 99
    [] c = "x" -> 120
    [] c = "y" -> 121
    [] c = "~" -> 126
    [] OTHER -> 127

HasPrefix(s, p) == Len(s) >= Len(p) /\ SubSeq(s, 1, Len(p)) = p

\* strings.Replace(s, old, new, -1) for a non-empty old: the non-overlapping
\* occurrences of old, found from left to right, become new
RECURSIVE Replace(_, _, _)
Replace(s, old, new) ==
  IF Len(s) = 0 THEN <<>>
  ELSE IF HasPrefix(s, old)
       THEN new \o Replace(SubSeq(s, Len(old) + 1, Len(s)), old, new)
       ELSE <<Head(s)>> \o Replace(Tail(s), old, new)

\* a mutant of Escape: the two replacements in the other order
EscapeSlashFirst(str) == Replace(Replace(str, <<"/">>, <<"~", "1">>), <<"~">>, <<"~", "0">>)

\* Escape: ~ becomes ~0 and then / becomes ~1
Escape(str) == Replace(Replace(str, <<"~">>, <<"~", "0">>), <<"/">>, <<"~", "1">>)

\* a mutant of Unescape: the two replacements in the other order
UnescapeTildeFirst(str) == Replace(Replace(str, <<"~", "0">>, <<"~">>), <<"~", "1">>, <<"/">>)

\* Unescape: ~1 becomes / and then ~0 becomes ~
Unescape(str) == Replace(Replace(str, <<"~", "1">>, <<"/">>), <<"~", "0">>, <<"~">>)

\* strings.Split(s, "/"): the pieces between the separators, empty ones included
RECURSIVE Split(_)
Split(s) ==
  IF \A i \in 1..Len(s) : s[i] /= "/" THEN <<s>>
  ELSE LET i == CHOOSE j \in 1..Len(s) : s[j] = "/" /\ \A k \in 1..(j - 1) : s[k] /= "/"
       IN <<SubSeq(s, 1, i - 1)>> \o Split(SubSeq(s, i + 1, Len(s)))

RECURSIVE DecVal(_)
DecVal(s) == IF Len(s) = 0 THEN 0 ELSE 10 * DecVal(SubSeq(s, 1, Len(s) - 1)) + DigitVal(s[Len(s)])

\* strconv.ParseInt(s, 10, 64) and strconv.Atoi(s): an optional sign and at
\* least one decimal digit. The model's tokens are far too short to overflow.
ParseInt(s) ==
  LET signed == Len(s) > 0 /\ s[1] \in {"+", "-"}
      body == IF signed THEN Tail(s) ELSE s
      ok == Len(body) > 0 /\ \A i \in 1..Len(body) : IsDigit(body[i])
  IN [ok |-> ok,
      n |-> IF ~ok THEN 0 ELSE IF signed /\ s[1] = "-" THEN 0 - DecVal(body) ELSE DecVal(body)]

\* fmt's %d
RECURSIVE Itoa(_)
Itoa(n) ==
  IF n < 0 THEN <<"-">> \o Itoa(0 - n)
  ELSE IF n < 10 THEN <<Digits[n + 1]>>
  ELSE Itoa(n \div 10) \o <<Digits[(n % 10) + 1]>>

RECURSIVE Repeat(_, _)
Repeat(c, n) == IF n <= 0 THEN <<>> ELSE <<c>> \o Repeat(c, n - 1)

RECURSIVE Concat(_)
Concat(ss) == IF Len(ss) = 0 THEN <<>> ELSE Head(ss) \o Concat(Tail(ss))

LitKey == <<"k","e","y"," ","'">>
LitNotFound == <<"'"," ","n","o","t"," ","f","o","u","n","d",":">>
LitNotAddressable == <<"'"," ","n","o","t"," ","a","d","d","r","e","s","s","a","b","l","e",":">>
LitExpectedIndex == <<"e","x","p","e","c","t","e","d"," ","i","n","t","e","g","e","r"," ","i","n","d","e","x",":">>
LitOutOfBounds == <<"i","n","d","e","x"," ","o","u","t"," ","o","f"," ","b","o","u","n","d","s",":">>
LitInvalid == <<"i","n","v","a","l","i","d"," ","j","s","o","n"," ","p","o","i","n","t","e","r",":"," ">>
LitCannotPut == <<"c","a","n","n","o","t"," ","p","u","t"," ","o","n"," ","e","m","p","t","y"," ","J","S","O","N"," ","p","o","i","n","t","e","r">>
LitValue == <<"v","a","l","u","e"," ","'">>
LitPrimitive == <<"'"," ","i","s"," ","a"," ","p","r","i","m","i","t","i","v","e",":">>
LitUnsupported == <<"u","n","s","u","p","p","o","r","t","e","d"," ","n","o","d","e"," ","t","y","p","e",":">>
LitAvailable == <<" ","a","v","a","i","l","a","b","l","e"," ","k","e","y","s",":"," ">>
LitObjectIsNil == <<" ","o","b","j","e","c","t"," ","i","s"," ","n","i","l">>
LitIndexMustBe == <<" ","i","n","d","e","x"," ","m","u","s","t"," ","b","e"," ","i","n"," ","[">>
LitDots == <<".",".",".">>
NL == "\n"

(***************************************************************************)
(* Diagnostics.                                                            *)
(***************************************************************************)
\* line 2 of baseMsg, token by token (tokens[i] is the code's tokens[i-1])
RECURSIVE Annotation(_, _, _)
Annotation(failedAt, tokens, i) ==
  IF i > Len(tokens) THEN <<>>
  ELSE (IF i - 1 < failedAt
        THEN Repeat(" ", Len(tokens[i])) \o <<" ">>
        ELSE (IF i - 1 = failedAt THEN <<" ", "^">> ELSE <<>>) \o Repeat("~", Len(tokens[i])))
       \o Annotation(failedAt, tokens, i + 1)

\* a mutant of baseMsg: the caret is written without the blank under the slash
RECURSIVE AnnotationNoBlank(_, _, _)
AnnotationNoBlank(failedAt, tokens, i) ==
  IF i > Len(tokens) THEN <<>>
  ELSE (IF i - 1 < failedAt
        THEN Repeat(" ", Len(tokens[i])) \o <<" ">>
        ELSE (IF i - 1 = failedAt THEN <<"^">> ELSE <<>>) \o Repeat("~", Len(tokens[i])))
       \o AnnotationNoBlank(failedAt, tokens, i + 1)

PointerLine(tokens) == Concat([i \in 1..Len(tokens) |-> <<"/">> \o tokens[i]])

baseMsgNoBlank(failedAt, tokens) ==
  PointerLine(tokens) \o <<NL>> \o AnnotationNoBlank(failedAt, tokens, 1)

\* baseMsg: the pointer, a line break, and the annotation under it
baseMsg(failedAt, tokens) ==
  PointerLine(tokens) \o <<NL>> \o Annotation(failedAt, tokens, 1)

\* keysInContext is a Go slice: nil, or a (possibly empty) list of keys
NilKeys == [nil |-> TRUE, keys |-> <<>>]
KeySlice(ks) == [nil |-> FALSE, keys |-> ks]

JoinKeys(ks) ==
  Concat([i \in 1..Len(ks) |-> ks[i] \o (IF i < Len(ks) THEN <<"|">> ELSE <<>>)])

evalMsg(failedAt, tokens, keysInContext) ==
  baseMsg(failedAt, tokens)
    \o (IF Len(keysInContext.keys) > 0
        THEN LitAvailable \o <<"(">> \o JoinKeys(keysInContext.keys) \o <<")">>
        ELSE <<>>)
    \o (IF keysInContext.nil THEN LitObjectIsNil ELSE <<>>)

evalMsgArr(failedAt, tokens, min, max) ==
  baseMsg(failedAt, tokens) \o LitIndexMustBe \o Itoa(min) \o LitDots \o Itoa(max) \o <<"[">>

\* s < t in Go's byte-wise string order
RECURSIVE StrLess(_, _)
StrLess(s, t) ==
  IF Len(t) = 0 THEN FALSE
  ELSE IF Len(s) = 0 THEN TRUE
  ELSE IF Ord(s[1]) /= Ord(t[1]) THEN Ord(s[1]) < Ord(t[1])
  ELSE StrLess(Tail(s), Tail(t))

\* sort.Strings over the keys of a map
RECURSIVE SortStrings(_)
SortStrings(S) ==
  IF S = {} THEN <<>>
  ELSE LET m == CHOOSE x \in S : \A y \in S \ {x} : StrLess(x, y)
       IN <<m>> \o SortStrings(S \ {m})

\* a mutant of keysAsSlice: the keys of a map with no key come back as nil
keysAsSliceNil(m) == IF DOMAIN m = {} THEN NilKeys ELSE KeySlice(SortStrings(DOMAIN m))

keysAsSlice(m) == KeySlice(SortStrings(DOMAIN m))

(***************************************************************************)
(* Values (types.go). A Value is nil (the Go nil interface), one of the    *)
(* primitives Null, Bool, Number, String, or a reference to an Obj or Arr  *)
(* cell of the heap. All values carry the same fields.                     *)
(*                                                                         *)
(* The type switch of Put names *Obj and the one of Eval names Obj; the    *)
(* model has one kind of object, as the tests use them (an Obj built by    *)
(* Put is read by Eval). The values given to Put are primitives, so no     *)
(* container is ever stored in two places.                                 *)
(***************************************************************************)
Val(k, s, n, b, ref) == [k |-> k, s |-> s, n |-> n, b |-> b, ref |-> ref]

NilV == Val("nil", <<>>, 0, FALSE, 0)
Null == Val("Null", <<>>, 0, FALSE, 0)
Bool(b) == Val("Bool", <<>>, 0, b, 0)
Number(n) == Val("Number", <<>>, n, FALSE, 0)
String(s) == Val("String", s, 0, FALSE, 0)
ObjRef(r) == Val("Obj", <<>>, 0, FALSE, r)
ArrRef(r) == Val("Arr", <<>>, 0, FALSE, r)

IsPrimitive(v) == v.k \in {"Null", "Bool", "Number", "String"}

\* a cell of the heap: the members of an Obj, or the slice of an Arr
NewObj == [k |-> "Obj", m |-> <<>>, s |-> <<>>]
NewArr == [k |-> "Arr", m |-> <<>>, s |-> <<>>]

RefOf(cell, r) == IF cell.k = "Arr" THEN ArrRef(r) ELSE ObjRef(r)

\* Obj.Get, Obj.Put: the members of an object, by key
ObjHas(h, r, key) == key \in DOMAIN h[r].m

ObjGet(h, r, key) == h[r].m[key]

ObjPut(h, r, key, value) ==
  [h EXCEPT ![r].m = [x \in (DOMAIN h[r].m) \cup {key} |-> IF x = key THEN value ELSE h[r].m[x]]]

ArrLen(h, r) == Len(h[r].s)

ArrGet(h, r, idx) == h[r].s[idx + 1]

ArrAppend(h, r, v) == [h EXCEPT ![r].s = Append(h[r].s, v)]

\* a mutant of SetAt: the value is appended behind the elements
ArrSetAtAppends(h, r, idx, v) == ArrAppend(h, r, v)

ArrSetAt(h, r, idx, v) == [h EXCEPT ![r].s[idx + 1] = v]

\* a mutant of the padding loop: it pads one element too many
RECURSIVE ArrPadLong(_, _, _)
ArrPadLong(h, r, idx) ==
  IF (idx + 2) - ArrLen(h, r) <= 0 THEN h ELSE ArrPadLong(ArrAppend(h, r, Null), r, idx)

\* a mutant of the padding loop: the Arr is resized to idx+1 elements
ArrPadResize(h, r, idx) ==
  [h EXCEPT ![r].s = [j \in 1..(idx + 1) |-> IF j <= Len(@) THEN @[j] ELSE Null]]

\* for range int(idx+1) - v.Len() { v.Append(Null{}) }
RECURSIVE ArrPad(_, _, _)
ArrPad(h, r, idx) ==
  IF (idx + 1) - ArrLen(h, r) <= 0 THEN h ELSE ArrPad(ArrAppend(h, r, Null), r, idx)

\* tokens := strings.Split(ptr, "/")[1:]
Tokens(ptr) == Tail(Split(ptr))

(***************************************************************************)
(* Value.Bool (types.go). A Number is a count of hundredths (3.14 is 314); *)
(* a nil Obj or Arr is the reference 0.                                    *)
(***************************************************************************)
\* strconv.ParseBool
ParseBool(str) ==
  IF str \in { <<"1">>, <<"t">>, <<"T">>, <<"T","R","U","E">>, <<"t","r","u","e">>, <<"T","r","u","e">> }
  THEN [ok |-> TRUE, b |-> TRUE]
  ELSE IF str \in { <<"0">>, <<"f">>, <<"F">>, <<"F","A","L","S","E">>, <<"f","a","l","s","e">>,
                    <<"F","a","l","s","e">> }
  THEN [ok |-> TRUE, b |-> FALSE]
  ELSE [ok |-> FALSE, b |-> FALSE]

NullBool == FALSE

\* a mutant of Number.Bool: the conventional rule, true for a number that is not zero
NumberBoolNonZero(n) == n /= 0

NumberBool(n) == n = 0

ObjBool(ref) == ref /= 0

ArrBool(ref) == ref /= 0

BoolBool(b) == b

StringBool(s) == ParseBool(s).b

\* v.Bool(), by the type of v
ValueBool(v) ==
  CASE v.k = "Null" -> NullBool
    [] v.k = "Number" -> NumberBool(v.n)
    [] v.k = "Obj" -> ObjBool(v.ref)
    [] v.k = "Arr" -> ArrBool(v.ref)
    [] v.k = "Bool" -> BoolBool(v.b)
    [] v.k = "String" -> StringBool(v.s)

(***************************************************************************)
(* Eval (put.go, the second file of it).                                   *)
(***************************************************************************)
EvalOk(v) == [err |-> "", val |-> v, at |-> -1, msg |-> <<>>]

EvalFail(kind, failedAt, msg) == [err |-> kind, val |-> NilV, at |-> failedAt, msg |-> msg]

\* a mutant of the bounds check of Eval: the last element is out of bounds
IndexInBoundsShort(idx, len) == ~(idx < 0 \/ idx >= len - 1)

\* the negation of: idx < 0 || int(idx) >= t.Len()
IndexInBounds(idx, len) == ~(idx < 0 \/ idx >= len)

\* a mutant of the loop of Eval: a token that looks like an integer is an
\* index, and is not looked up as the key of an Obj
RECURSIVE EvalWalkIndexFirst(_, _, _, _)
EvalWalkIndexFirst(h, cur, tokens, i) ==
  IF i > Len(tokens) THEN EvalOk(cur)
  ELSE
    LET token == Unescape(tokens[i])
        failedAt == i - 1
    IN IF cur.k = "nil"
       THEN EvalFail("KeyNotFound", failedAt,
              LitKey \o token \o LitNotFound \o <<NL>> \o evalMsg(failedAt, tokens, NilKeys))
       ELSE IF cur.k = "Obj"
       THEN IF ObjHas(h, cur.ref, token) /\ ~ParseInt(token).ok
            THEN EvalWalkIndexFirst(h, ObjGet(h, cur.ref, token), tokens, i + 1)
            ELSE EvalFail("KeyNotFound", failedAt,
                   LitKey \o token \o LitNotFound \o <<NL>>
                     \o evalMsg(failedAt, tokens, keysAsSlice(h[cur.ref].m)))
       ELSE IF cur.k = "Arr"
       THEN LET idx == ParseInt(token)
            IN IF ~idx.ok
               THEN EvalFail("ExpectedIndex", failedAt,
                      LitExpectedIndex \o <<NL>> \o evalMsgArr(failedAt, tokens, 0, ArrLen(h, cur.ref)))
               ELSE IF ~IndexInBounds(idx.n, ArrLen(h, cur.ref))
               THEN EvalFail("IndexOutOfBounds", failedAt,
                      LitOutOfBounds \o <<NL>> \o evalMsgArr(failedAt, tokens, 0, ArrLen(h, cur.ref)))
               ELSE EvalWalkIndexFirst(h, ArrGet(h, cur.ref, idx.n), tokens, i + 1)
       ELSE EvalFail("NotAddressable", failedAt,
              LitKey \o token \o LitNotAddressable \o <<NL>> \o evalMsg(failedAt, tokens, NilKeys))

\* the loop of Eval from token i on (tokens[i] is the code's tokens[i-1])
RECURSIVE EvalWalk(_, _, _, _)
EvalWalk(h, cur, tokens, i) ==
  IF i > Len(tokens) THEN EvalOk(cur)
  ELSE
    LET token == Unescape(tokens[i])
        failedAt == i - 1
    IN IF cur.k = "nil"
       THEN EvalFail("KeyNotFound", failedAt,
              LitKey \o token \o LitNotFound \o <<NL>> \o evalMsg(failedAt, tokens, NilKeys))
       ELSE IF cur.k = "Obj"
       THEN IF ObjHas(h, cur.ref, token)
            THEN EvalWalk(h, ObjGet(h, cur.ref, token), tokens, i + 1)
            ELSE EvalFail("KeyNotFound", failedAt,
                   LitKey \o token \o LitNotFound \o <<NL>>
                     \o evalMsg(failedAt, tokens, keysAsSlice(h[cur.ref].m)))
       ELSE IF cur.k = "Arr"
       THEN LET idx == ParseInt(token)
            IN IF ~idx.ok
               THEN EvalFail("ExpectedIndex", failedAt,
                      LitExpectedIndex \o <<NL>> \o evalMsgArr(failedAt, tokens, 0, ArrLen(h, cur.ref)))
               ELSE IF ~IndexInBounds(idx.n, ArrLen(h, cur.ref))
               THEN EvalFail("IndexOutOfBounds", failedAt,
                      LitOutOfBounds \o <<NL>> \o evalMsgArr(failedAt, tokens, 0, ArrLen(h, cur.ref)))
               ELSE EvalWalk(h, ArrGet(h, cur.ref, idx.n), tokens, i + 1)
       ELSE EvalFail("NotAddressable", failedAt,
              LitKey \o token \o LitNotAddressable \o <<NL>> \o evalMsg(failedAt, tokens, NilKeys))

\* a mutant of Eval: the empty pointer is refused, as Put refuses it
EvalNoWholeDocument(h, objOrArr, ptr) ==
  IF Len(ptr) = 0 \/ ~HasPrefix(ptr, <<"/">>)
  THEN EvalFail("InvalidPointer", -1, LitInvalid \o ptr)
  ELSE EvalWalk(h, objOrArr, Tokens(ptr), 1)

Eval(h, objOrArr, ptr) ==
  IF Len(ptr) = 0 THEN EvalOk(objOrArr)
  ELSE IF ~HasPrefix(ptr, <<"/">>) THEN EvalFail("InvalidPointer", -1, LitInvalid \o ptr)
  ELSE EvalWalk(h, objOrArr, Tokens(ptr), 1)

(***************************************************************************)
(* Put (put.go, the first file of it).                                     *)
(*                                                                         *)
(* Beside the error and the heap it leaves, the walk reports where it went:*)
(* leaf is the container the value was stored in, path the location of the *)
(* slot it stopped at (the keys and indices from the root), and wrote the   *)
(* locations of all slots it assigned.                                     *)
(***************************************************************************)
KeyStep(key) == [key |-> key, idx |-> -1]
IdxStep(idx) == [key |-> <<>>, idx |-> idx]

PutDone(h, leaf, path, wrote) ==
  [err |-> "", at |-> -1, msg |-> <<>>, heap |-> h, leaf |-> leaf, path |-> path, wrote |-> wrote]

PutFail(kind, failedAt, msg, h, path, wrote) ==
  [err |-> kind, at |-> failedAt, msg |-> msg, heap |-> h, leaf |-> 0, path |-> path, wrote |-> wrote]

\* a mutant of the leaf write into an Arr: a negative index is stored at the front
LeafIntoArrFront(h, r, idx, value) ==
  IF idx < 0 THEN [h EXCEPT ![r].s = <<value>> \o h[r].s]
  ELSE ArrSetAt(ArrPad(h, r, idx), r, idx, value)

\* a mutant of the leaf write into an Arr: the index is ignored
LeafIntoArrAppendOnly(h, r, idx, value) == ArrAppend(h, r, value)

\* the leaf write into an Arr: append for a negative index, pad and set otherwise
LeafIntoArr(h, r, idx, value) ==
  IF idx < 0 THEN ArrAppend(h, r, value)
  ELSE ArrSetAt(ArrPad(h, r, idx), r, idx, value)

\* the index a leaf write into an Arr stores at
LeafIndex(h, r, idx) == IF idx < 0 THEN ArrLen(h, r) ELSE idx

\* a mutant of the lookahead: any later token that is an integer counts
MayBeArrayIdxDeep(tokens, i) ==
  i <= Len(tokens) - 1 /\ \E j \in (i + 1)..Len(tokens) : ParseInt(tokens[j]).ok

\* nextMayBeArrayIdx: there is a next token and strconv.Atoi accepts it as it
\* stands in the pointer
MayBeArrayIdx(tokens, i) == i <= Len(tokens) - 1 /\ ParseInt(tokens[i + 1]).ok

\* the loop of Put from token i on (tokens[i] is the code's tokens[i-1])
RECURSIVE PutWalk(_, _, _, _, _, _, _)
PutWalk(h, cur, tokens, i, value, path, wrote) ==
  LET token == Unescape(tokens[i])
      leaf == i = Len(tokens)
      nextMayBeArrayIdx == MayBeArrayIdx(tokens, i)
      failedAt == i - 1
      fresh == IF nextMayBeArrayIdx THEN NewArr ELSE NewObj
      h1 == Append(h, fresh)
      x == RefOf(fresh, Len(h1))
  IN IF cur.k = "nil"
     THEN PutFail("KeyNotFound", failedAt,
            LitKey \o token \o LitNotFound \o <<NL>> \o evalMsg(failedAt, tokens, NilKeys),
            h, path, wrote)
     ELSE IF IsPrimitive(cur)
     THEN PutFail("NotAContainer", failedAt,
            LitValue \o token \o LitPrimitive \o <<NL>> \o evalMsg(failedAt, tokens, NilKeys),
            h, path, wrote)
     ELSE IF cur.k = "Obj"
     THEN LET here == Append(path, KeyStep(token))
          IN IF leaf
             THEN PutDone(ObjPut(h, cur.ref, token, value), cur.ref, here, wrote \cup {here})
             ELSE IF ObjHas(h, cur.ref, token)
             THEN PutWalk(h, ObjGet(h, cur.ref, token), tokens, i + 1, value, here, wrote)
             ELSE PutWalk(ObjPut(h1, cur.ref, token, x), x, tokens, i + 1, value,
                          here, wrote \cup {here})
     ELSE IF cur.k = "Arr"
     THEN LET idx == ParseInt(token)
              len == ArrLen(h, cur.ref)
          IN IF ~idx.ok
             THEN PutFail("ExpectedIndex", failedAt,
                    LitExpectedIndex \o <<NL>> \o evalMsgArr(failedAt, tokens, 0, len),
                    h, path, wrote)
             ELSE IF ~leaf
             THEN IF idx.n = -1
                  THEN LET here == Append(path, IdxStep(len))
                       IN PutWalk(ArrAppend(h1, cur.ref, x), x, tokens, i + 1, value,
                                  here, wrote \cup {here})
                  ELSE IF idx.n < 0
                  THEN PutFail("IndexOutOfBounds", failedAt,
                         LitOutOfBounds \o <<NL>> \o evalMsgArr(failedAt, tokens, 0, len),
                         h, path, wrote)
                  ELSE LET here == Append(path, IdxStep(idx.n))
                       IN PutWalk(ArrSetAt(ArrPad(h1, cur.ref, idx.n), cur.ref, idx.n, x), x,
                                  tokens, i + 1, value, here, wrote \cup {here})
             ELSE LET here == Append(path, IdxStep(LeafIndex(h, cur.ref, idx.n)))
                  IN PutDone(LeafIntoArr(h, cur.ref, idx.n, value), cur.ref, here,
                             wrote \cup {here})
     ELSE PutFail("Unsupported", failedAt,
            LitUnsupported \o <<NL>> \o evalMsg(failedAt, tokens, NilKeys), h, path, wrote)

\* a mutant of Put: a pointer without the leading slash is split and walked
PutNoPrefixCheck(h, objOrArr, ptr, value) ==
  IF Len(ptr) = 0 THEN PutFail("InvalidPointer", -1, LitCannotPut, h, <<>>, {})
  ELSE IF Len(Tokens(ptr)) = 0 THEN PutFail("InvalidPointer", -1, LitCannotPut, h, <<>>, {})
  ELSE PutWalk(h, objOrArr, Tokens(ptr), 1, value, <<>>, {})

Put(h, objOrArr, ptr, value) ==
  IF Len(ptr) = 0 THEN PutFail("InvalidPointer", -1, LitCannotPut, h, <<>>, {})
  ELSE IF ~HasPrefix(ptr, <<"/">>) THEN PutFail("InvalidPointer", -1, LitInvalid \o ptr, h, <<>>, {})
  ELSE PutWalk(h, objOrArr, Tokens(ptr), 1, value, <<>>, {})

(***************************************************************************)
(* The state machine: a caller owns one tree, built by Put calls from an   *)
(* empty Obj or Arr, and reads it with Eval.                               *)
(*   heap, root  the tree                                                  *)
(*   puts        the Put calls made so far and what each returned           *)
(*   ev          the Eval call that ends the run, and its result            *)
(* Eval changes nothing of the tree, so a run is a sequence of Put calls    *)
(* and then one Eval: what an Eval between two Puts returns is what it      *)
(* returns at the end of the shorter run.                                   *)
(***************************************************************************)
PutPtrs ==
  { <<>>,
    <<"a">>,
    <<"/">>,
    <<"/", "a">>,
    <<"/", "1">>,
    <<"/", "-", "1">>,
    <<"/", "~", "1">>,
    <<"/", "~", "0", "1">>,
    <<"/", "a", "/", "0">>,
    <<"/", "a", "/", "2">>,
    <<"/", "a", "/", "-", "1">>,
    <<"/", "a", "/", "0", "/", "b">> }

EvalPtrs ==
  PutPtrs \cup
  { <<"/", "0">>,
    <<"/", "b">>,
    <<"/", "0", "/", "x">>,
    <<"/", "a", "/", "1">>,
    <<"/", "a", "/", "x">>,
    <<"/", "a", "/", "3">>,
    <<"/", "a", "/", "b", "/", "c">> }

\* Eval of a nil document
NilPtrs == { <<>>, <<"/", "a", "/", "b">> }

PutVals == { Null, String(<<"x">>) }

NoEval == [op |-> "none", root |-> NilV, ptr |-> <<>>, res |-> EvalOk(NilV)]

NoInput == [f |-> "none", s |-> <<>>, tokens |-> <<>>, at |-> 0]

NoOutput == [stage |-> 0, esc |-> <<>>, unesc |-> <<>>, msg |-> <<>>]

\* The documents a run starts from: an empty Obj, an empty Arr, and the tree
\* that decoding {"a": [null, "x"], "b": null} builds (ValueOf: a JSON null
\* becomes Null, an array an Arr, an object an Obj).
DecodedDoc ==
  << [k |-> "Obj", m |-> (<<"a">> :> ArrRef(2)) @@ (<<"b">> :> Null), s |-> <<>>],
     [k |-> "Arr", m |-> <<>>, s |-> <<Null, String(<<"x">>)>>] >>

Docs == { <<NewObj>>, <<NewArr>>, DecodedDoc }

\* the pointers that address the members of an Obj by their escaped keys
KeyPtrs(h, o) ==
  IF o.k = "Obj" THEN { <<"/">> \o Escape(key) : key \in DOMAIN h[o.ref].m } ELSE {}

Init ==
  /\ \E d \in Docs : heap = d /\ root = RefOf(d[1], 1)
  /\ puts = <<>>
  /\ ev = NoEval
  /\ fin = NoInput
  /\ fout = NoOutput

DoPut ==
  /\ Len(puts) < MaxPuts
  /\ ev.op = "none"
  /\ \E ptr \in PutPtrs, value \in PutVals :
       LET r == Put(heap, root, ptr, value)
       IN /\ heap' = r.heap
          /\ puts' = Append(puts, [ptr |-> ptr, val |-> value, err |-> r.err, at |-> r.at,
                                   msg |-> r.msg, leaf |-> r.leaf, path |-> r.path,
                                   wrote |-> r.wrote, pre |-> heap])
  /\ UNCHANGED <<root, ev, fin, fout>>

DoEval ==
  /\ ev.op = "none"
  /\ \E a \in ({root} \X (EvalPtrs \cup KeyPtrs(heap, root))) \cup ({NilV} \X NilPtrs) :
       ev' = [op |-> "Eval", root |-> a[1], ptr |-> a[2], res |-> Eval(heap, a[1], a[2])]
  /\ UNCHANGED <<heap, root, puts, fin, fout>>

Next == DoPut \/ DoEval

Spec == Init /\ [][Next]_vars

(***************************************************************************)
(* The same caller, with pointers that go through the elements of an Arr,  *)
(* use negative indices at and before the last token, and lack the leading *)
(* slash.                                                                  *)
(***************************************************************************)
DeepPtrs ==
  { <<>>,
    <<"a", "/", "0">>,
    <<"/", "a">>,
    <<"/", "a", "/", "b">>,
    <<"/", "a", "/", "-", "2">>,
    <<"/", "a", "/", "0", "/", "x">>,
    <<"/", "a", "/", "0", "/", "y">>,
    <<"/", "a", "/", "-", "2", "/", "b">>,
    <<"/", "a", "/", "-", "1", "/", "b", "/", "0">>,
    <<"/", "-", "1", "/", "0">> }

DeepEvalPtrs ==
  DeepPtrs \cup
  { <<"a">>,
    <<"/", "0">>,
    <<"/", "-", "1">>,
    <<"/", "a", "/", "0">>,
    <<"/", "a", "/", "1">> }

DoPutDeep ==
  /\ Len(puts) < MaxPuts
  /\ ev.op = "none"
  /\ \E ptr \in DeepPtrs, value \in PutVals :
       LET r == Put(heap, root, ptr, value)
       IN /\ heap' = r.heap
          /\ puts' = Append(puts, [ptr |-> ptr, val |-> value, err |-> r.err, at |-> r.at,
                                   msg |-> r.msg, leaf |-> r.leaf, path |-> r.path,
                                   wrote |-> r.wrote, pre |-> heap])
  /\ UNCHANGED <<root, ev, fin, fout>>

DoEvalDeep ==
  /\ ev.op = "none"
  /\ \E ptr \in DeepEvalPtrs :
       ev' = [op |-> "Eval", root |-> root, ptr |-> ptr, res |-> Eval(heap, root, ptr)]
  /\ UNCHANGED <<heap, root, puts, fin, fout>>

NextDeep == DoPutDeep \/ DoEvalDeep

SpecDeep == Init /\ [][NextDeep]_vars

(***************************************************************************)
(* The pure functions, applied to inputs drawn from bounded sets.          *)
(***************************************************************************)
EscAlphabet == {"~", "/", "0", "1"}

Strs(A, n) == UNION {[1..k -> A] : k \in 0..n}

MsgTokens == { <<>>, <<"a">>, <<"a", "b", "c">>, <<"a", "s", "d">> }

MsgInputs ==
  { [f |-> "baseMsg", s |-> <<>>, tokens |-> ts, at |-> i] :
      <<ts, i>> \in { x \in (UNION {[1..k -> MsgTokens] : k \in 1..MaxTokens}) \X (0..(MaxTokens - 1)) :
                        x[2] < Len(x[1]) } }
 
EscInputs == { [f |-> "Escape", s |-> str, tokens |-> <<>>, at |-> 0] : str \in Strs(EscAlphabet, MaxStrLen) }

\* the values Bool is called on: the primitives, the containers of a decoded
\* document, an empty Obj, an empty Arr, and a nil Obj and Arr
BoolDoc == DecodedDoc \o <<NewObj, NewArr>>

BoolStrings ==
  { <<>>, <<"1">>, <<"0">>, <<"t">>, <<"T">>, <<"f">>, <<"F">>, <<"x">>,
    <<"t","r","u","e">>, <<"T","R","U","E">>, <<"T","r","u","e">>, <<"t","R","u","e">>,
    <<"f","a","l","s","e">>, <<"F","A","L","S","E">>, <<"F","a","l","s","e">>,
    <<"y","e","s">>, <<"3",".","1","4">> }

BoolVals ==
  {Null, Bool(TRUE), Bool(FALSE)}
    \cup {Number(n) : n \in {0, 1, -1, 100, 314}}
    \cup {String(s) : s \in BoolStrings}
    \cup {RefOf(BoolDoc[r], r) : r \in 1..Len(BoolDoc)}
    \cup {ObjRef(0), ArrRef(0)}

BoolInputs == { [f |-> "Bool", s |-> <<>>, tokens |-> <<>>, at |-> 0, v |-> x] : x \in BoolVals }

InitPure ==
  /\ heap = BoolDoc
  /\ root = ObjRef(1)
  /\ puts = <<>>
  /\ ev = NoEval
  /\ fin \in EscInputs \cup MsgInputs \cup BoolInputs
  /\ fout = NoOutput

RunEscape ==
  /\ fin.f = "Escape"
  /\ fout.stage = 0
  /\ fout' = [fout EXCEPT !.stage = 1, !.esc = Escape(fin.s)]
  /\ UNCHANGED <<heap, root, puts, ev, fin>>

RunUnescape ==
  /\ fin.f = "Escape"
  /\ fout.stage = 1
  /\ fout' = [fout EXCEPT !.stage = 2, !.unesc = Unescape(fout.esc)]
  /\ UNCHANGED <<heap, root, puts, ev, fin>>

RunBaseMsg ==
  /\ fin.f = "baseMsg"
  /\ fout.stage = 0
  /\ fout' = [fout EXCEPT !.stage = 1, !.msg = baseMsg(fin.at, fin.tokens)]
  /\ UNCHANGED <<heap, root, puts, ev, fin>>

RunBool ==
  /\ fin.f = "Bool"
  /\ fout.stage = 0
  /\ fout' = [stage |-> 1, esc |-> <<>>, unesc |-> <<>>, msg |-> <<>>, b |-> ValueBool(fin.v)]
  /\ UNCHANGED <<heap, root, puts, ev, fin>>

NextPure == RunEscape \/ RunUnescape \/ RunBaseMsg \/ RunBool

SpecPure == InitPure /\ [][NextPure]_vars

(***************************************************************************)
(* What the properties below are stated with.                              *)
(***************************************************************************)
HasSuffix(s, p) == Len(s) >= Len(p) /\ SubSeq(s, Len(s) - Len(p) + 1, Len(s)) = p

Contains(s, sub) == \E i \in 0..(Len(s) - Len(sub)) : SubSeq(s, i + 1, i + Len(sub)) = sub

IsPrefixOf(p, s) == Len(p) <= Len(s) /\ SubSeq(s, 1, Len(p)) = p

Max(a, b) == IF a >= b THEN a ELSE b

\* the tree the run started from, and the tree after the i-th Put
Origin == IF Len(puts) = 0 THEN heap ELSE puts[1].pre

PostHeap(i) == IF i = Len(puts) THEN heap ELSE puts[i + 1].pre

FromEmpty == Origin \in {<<NewObj>>, <<NewArr>>}

AllPutsOk == \A i \in 1..Len(puts) : puts[i].err = ""

\* the last Put made with pointer p
LastPutOf(p) ==
  CHOOSE i \in 1..Len(puts) : puts[i].ptr = p /\ \A j \in (i + 1)..Len(puts) : puts[j].ptr /= p

UsedInPuts(p) == \E i \in 1..Len(puts) : puts[i].ptr = p

\* the slice of the Arr cell r of heap h; empty while the cell does not exist
SliceIn(h, r) == IF r \in 1..Len(h) THEN h[r].s ELSE <<>>

LastToken(ptr) == Unescape(Tokens(ptr)[Len(Tokens(ptr))])

NoNegativeToken(ptr) ==
  \A i \in 1..Len(Tokens(ptr)) :
    LET n == ParseInt(Unescape(Tokens(ptr)[i])) IN ~(n.ok /\ n.n < 0)

\* no Put after the i-th assigned the slot the i-th Put stored in, or a slot
\* holding a container on the way to it
Undisturbed(i) ==
  \A j \in (i + 1)..Len(puts) : \A w \in puts[j].wrote : ~IsPrefixOf(w, puts[i].path)

EvalOfRoot == ev.op = "Eval" /\ ev.root = root

C2_ArrayPadding ==
  \A c \in 1..Len(puts) :
    LET put == puts[c]
        idx == ParseInt(LastToken(put.ptr))
        before == SliceIn(put.pre, put.leaf)
        after == SliceIn(PostHeap(c), put.leaf)
        n == Len(before)
    IN (put.err = "" /\ put.leaf > 0 /\ PostHeap(c)[put.leaf].k = "Arr" /\ idx.ok /\ idx.n >= 0)
         => /\ Len(after) = Max(n, idx.n + 1)
            /\ after[idx.n + 1] = put.val
            /\ \A j \in (n + 1)..idx.n : after[j] = Null
            /\ \A j \in 1..n : j /= idx.n + 1 => after[j] = before[j]

\* "/a/2" stored "x" into an empty Arr: two elements of padding
C2_Witness ==
  \E c \in 1..Len(puts) :
    /\ puts[c].err = "" /\ puts[c].leaf > 0
    /\ puts[c].ptr = <<"/", "a", "/", "2">>
    /\ puts[c].val = String(<<"x">>)
    /\ SliceIn(puts[c].pre, puts[c].leaf) = <<>>
    /\ SliceIn(PostHeap(c), puts[c].leaf) = <<Null, Null, String(<<"x">>)>>

(***************************************************************************)
(* C3. Append sentinel: k successive successful Puts with one pointer      *)
(* whose last token is -1, all storing into the same Arr of initial length *)
(* n, leave it with length n+k and its first n elements as they were, and  *)
(* Eval of the Arr at index n+i-1 returns the i-th value written.          *)
(***************************************************************************)
C3_AppendSentinel ==
  \A i \in 1..Len(puts) : \A j \in i..Len(puts) :
    LET leaf == puts[i].leaf
        k == j - i + 1
        before == SliceIn(puts[i].pre, leaf)
        after == SliceIn(PostHeap(j), leaf)
        n == Len(before)
    IN (/\ leaf > 0
        /\ \A c \in i..j : puts[c].ptr = puts[i].ptr /\ puts[c].err = "" /\ puts[c].leaf = leaf
        /\ PostHeap(j)[leaf].k = "Arr"
        /\ Tokens(puts[i].ptr)[Len(Tokens(puts[i].ptr))] = <<"-", "1">>)
         => /\ Len(after) = n + k
            /\ SubSeq(after, 1, n) = before
            /\ \A m \in 1..k :
                 Eval(PostHeap(j), ArrRef(leaf), <<"/">> \o Itoa(n + m - 1))
                   = EvalOk(puts[i + m - 1].val)

\* two appends of different values to an Arr that had two elements
C3_Witness ==
  /\ Len(puts) = 2
  /\ puts[1].ptr = <<"/", "a", "/", "-", "1">>
  /\ puts[2].ptr = puts[1].ptr
  /\ puts[1].err = "" /\ puts[2].err = ""
  /\ puts[1].leaf = puts[2].leaf
  /\ puts[1].val /= puts[2].val
  /\ Len(SliceIn(puts[1].pre, puts[1].leaf)) = 2
  /\ Len(SliceIn(heap, puts[1].leaf)) = 4

(***************************************************************************)
(* C4. Escape round trip: Unescape(Escape(s)) = s for every string s over  *)
(* an alphabet with '~', '/', '0' and '1'.                                 *)
(***************************************************************************)
C4_EscapeRoundTrip ==
  (fin.f = "Escape" /\ fout.stage = 2) => fout.unesc = fin.s

\* the string "~01" went through Escape and Unescape
C4_Witness ==
  /\ fin.f = "Escape" /\ fout.stage = 2
  /\ fin.s = <<"~", "0", "1">>
  /\ fout.esc = <<"~", "0", "0", "1">>
  /\ fout.unesc = fin.s

C6_WholeDocument ==
  (ev.op = "Eval" /\ ev.ptr = <<>>) => ev.res = EvalOk(ev.root)

\* the empty pointer, evaluated on an Obj that has members
C6_Witness ==
  /\ ev.op = "Eval" /\ ev.ptr = <<>>
  /\ ev.root = root /\ root.k = "Obj"
  /\ DOMAIN heap[root.ref].m /= {}
  /\ ev.res.err = "" /\ ev.res.val = ObjRef(1)

(***************************************************************************)
(* C7. Eval index errors: where Eval reaches an Arr of length n with a     *)
(* token t, it fails with ExpectedIndex if t is no base-10 integer, with   *)
(* IndexOutOfBounds if t is an integer outside [0, n), negative ones       *)
(* included, and descends to element t otherwise; both failures carry the  *)
(* context " index must be in [0...n[".                                    *)
(***************************************************************************)
IndexContext(n) == LitIndexMustBe \o <<"0">> \o LitDots \o Itoa(n) \o <<"[">>

C7_EvalIndexErrors ==
  (ev.op = "Eval" /\ HasPrefix(ev.ptr, <<"/">>))
    => \A i \in 1..Len(Tokens(ev.ptr)) :
         LET toks == Tokens(ev.ptr)
             reached == EvalWalk(heap, ev.root, SubSeq(toks, 1, i - 1), 1)
             t == ParseInt(Unescape(toks[i]))
             n == Len(heap[reached.val.ref].s)
         IN (reached.err = "" /\ reached.val.k = "Arr")
              => IF ~t.ok
                 THEN /\ ev.res.err = "ExpectedIndex" /\ ev.res.at = i - 1
                      /\ HasPrefix(ev.res.msg, LitExpectedIndex)
                      /\ HasSuffix(ev.res.msg, IndexContext(n))
                 ELSE IF t.n < 0 \/ t.n >= n
                 THEN /\ ev.res.err = "IndexOutOfBounds" /\ ev.res.at = i - 1
                      /\ HasPrefix(ev.res.msg, LitOutOfBounds)
                      /\ HasSuffix(ev.res.msg, IndexContext(n))
                 ELSE EvalWalk(heap, ev.root, SubSeq(toks, 1, i), 1)
                        = EvalOk(heap[reached.val.ref].s[t.n + 1])

\* "/a/-1" evaluated where "a" is an Arr of three elements
C7_Witness ==
  /\ EvalOfRoot
  /\ ev.ptr = <<"/", "a", "/", "-", "1">>
  /\ root.k = "Obj"
  /\ <<"a">> \in DOMAIN heap[root.ref].m
  /\ heap[root.ref].m[<<"a">>].k = "Arr"
  /\ Len(heap[heap[root.ref].m[<<"a">>].ref].s) = 3
  /\ ev.res.err = "IndexOutOfBounds"
  /\ HasSuffix(ev.res.msg, IndexContext(3))

(***************************************************************************)
(* C8. Null mid-path, as claimed: where Eval has a token left and the      *)
(* current value is Null or absent, it fails with KeyNotFound, "key        *)
(* '<token>' not found", and the context " object is nil".                 *)
(* The code does so for an absent (nil) value only: a Null is a primitive  *)
(* and fails as "not addressable".                                         *)
(***************************************************************************)
C8_NullMidPath_Claimed ==
  (ev.op = "Eval" /\ HasPrefix(ev.ptr, <<"/">>))
    => \A i \in 1..Len(Tokens(ev.ptr)) :
         LET toks == Tokens(ev.ptr)
             reached == EvalWalk(heap, ev.root, SubSeq(toks, 1, i - 1), 1)
         IN (reached.err = "" /\ reached.val.k \in {"Null", "nil"})
              => /\ ev.res.err = "KeyNotFound" /\ ev.res.at = i - 1
                 /\ HasPrefix(ev.res.msg, LitKey \o Unescape(toks[i]) \o LitNotFound)
                 /\ HasSuffix(ev.res.msg, LitObjectIsNil)

(***************************************************************************)
(* C9. Diagnostic caret geometry. The two lines of a rendered walk:        *)
(***************************************************************************)
NLAt(msg) == CHOOSE i \in 1..Len(msg) : msg[i] = NL

Line1(msg) == SubSeq(msg, 1, NLAt(msg) - 1)

Line2(msg) == SubSeq(msg, NLAt(msg) + 1, Len(msg))

RECURSIVE SumLen(_, _, _)
SumLen(tokens, from, to) ==
  IF from > to THEN 0 ELSE Len(tokens[from]) + SumLen(tokens, from + 1, to)

\* the column of line 1 that holds the first character of the failing token
\* (columns count from 1; failedAt counts tokens from 0)
ColumnOf(tokens, failedAt) == SumLen(tokens, 1, failedAt) + failedAt + 2

Rendered == fin.f = "baseMsg" /\ fout.stage = 1

\* C9, as claimed: line 1 is the pointer; line 2 has blanks before the column
\* of the failing token, a '^' in that column, '~' under the failing token
\* ("^~~~" under "abc") and no '~' under any later token.
\* Refuted: the '~' run on, one for every character of every later token.
C9_CaretGeometry_Claimed ==
  Rendered =>
    LET tf == fin.tokens[fin.at + 1]
        col == ColumnOf(fin.tokens, fin.at)
        line2 == Line2(fout.msg)
    IN /\ Line1(fout.msg) = Concat([i \in 1..Len(fin.tokens) |-> <<"/">> \o fin.tokens[i]])
       /\ Len(line2) >= col
       /\ \A c \in 1..(col - 1) : line2[c] = " "
       /\ line2[col] = "^"
       /\ \A c \in (col + 1)..Len(line2) : line2[c] = "~" <=> c <= col + Len(tf)

\* C9, amended: line 1 is the pointer; line 2 has blanks before the column of
\* the failing token, a '^' in that column, and after it one '~' for every
\* character of the failing token and of every later token, and nothing else
\* (for "/abc/asd" failing at index 0 the annotation is "^~~~~~~").
C9_CaretGeometry ==
  Rendered =>
    LET col == ColumnOf(fin.tokens, fin.at)
    IN /\ Line1(fout.msg) = Concat([i \in 1..Len(fin.tokens) |-> <<"/">> \o fin.tokens[i]])
       /\ Line2(fout.msg) =
            Repeat(" ", col - 1) \o <<"^">>
              \o Repeat("~", SumLen(fin.tokens, fin.at + 1, Len(fin.tokens)))

\* "/abc/asd" failing at its second token
C9_Witness ==
  /\ Rendered
  /\ fin.tokens = << <<"a", "b", "c">>, <<"a", "s", "d">> >>
  /\ fin.at = 1
  /\ Line2(fout.msg) = <<" ", " ", " ", " ", " ", "^", "~", "~", "~">>

(***************************************************************************)
(* C10. Key-not-found context. The value Eval stood at when it failed:     *)
(***************************************************************************)
FailedOn == EvalWalk(heap, ev.root, SubSeq(Tokens(ev.ptr), 1, ev.res.at), 1).val

KeyNotFound == ev.op = "Eval" /\ ev.res.err = "KeyNotFound"

\* the keys of m, each once, in ascending order, as " available keys: (..)":
\* the i-th key listed is the one that has i-1 keys of m below it
ListsKeysAscending(msg, m) ==
  LET ks == [i \in 1..Cardinality(DOMAIN m) |->
               CHOOSE key \in DOMAIN m :
                 Cardinality({x \in DOMAIN m : StrLess(x, key)}) = i - 1]
  IN HasSuffix(msg, LitAvailable \o <<"(">> \o JoinKeys(ks) \o <<")">>)

\* C10, as claimed: a key missing from an Obj is reported with the keys of
\* the Obj in ascending order; " object is nil" appears exactly for a nil
\* value; every KeyNotFound failure, on an Obj with no keys too, renders
\* exactly one of the two contexts.
\* Refuted: for an Obj with no keys the message has no context at all.
C10_KeyNotFoundContext_Claimed ==
  KeyNotFound =>
    /\ FailedOn.k = "Obj" => ListsKeysAscending(ev.res.msg, heap[FailedOn.ref].m)
    /\ Contains(ev.res.msg, LitObjectIsNil) <=> FailedOn.k = "nil"
    /\ Contains(ev.res.msg, LitAvailable) /= Contains(ev.res.msg, LitObjectIsNil)

\* C10, amended: a key missing from an Obj with at least one key is reported
\* with the keys of the Obj in ascending order; " object is nil" appears
\* exactly for a nil value; a KeyNotFound failure on an Obj with keys or on a
\* nil value renders exactly one of the two contexts, and one on an Obj with
\* no keys renders neither.
C10_KeyNotFoundContext ==
  KeyNotFound =>
    /\ FailedOn.k \in {"Obj", "nil"}
    /\ (FailedOn.k = "Obj" /\ DOMAIN heap[FailedOn.ref].m /= {})
         => ListsKeysAscending(ev.res.msg, heap[FailedOn.ref].m)
    /\ Contains(ev.res.msg, LitObjectIsNil) <=> FailedOn.k = "nil"
    /\ IF FailedOn.k = "Obj" /\ DOMAIN heap[FailedOn.ref].m = {}
       THEN ~Contains(ev.res.msg, LitAvailable) /\ ~Contains(ev.res.msg, LitObjectIsNil)
       ELSE Contains(ev.res.msg, LitAvailable) /= Contains(ev.res.msg, LitObjectIsNil)

\* a key missing from an Obj whose keys were not inserted in ascending order
C10_Witness ==
  /\ KeyNotFound /\ ev.root = root /\ ev.res.at = 0
  /\ Len(puts) = 2
  /\ puts[1].ptr = <<"/", "a">>
  /\ puts[2].ptr = <<"/", "1">>
  /\ DOMAIN heap[root.ref].m = { <<"a">>, <<"1">> }
  /\ HasSuffix(ev.res.msg, LitAvailable \o <<"(", "1", "|", "a", ")">>)

(***************************************************************************)
(* C11. Pointer well-formedness: Eval and Put fail with InvalidPointer for *)
(* every non-empty pointer that does not start with '/', and Put fails so  *)
(* for the empty pointer too; the check precedes the walk: the failure is  *)
(* at no token, Put has gone to no slot and assigned none, and the tree is *)
(* as it was.                                                              *)
(***************************************************************************)
Malformed(ptr) == Len(ptr) > 0 /\ ~HasPrefix(ptr, <<"/">>)

C11_PointerWellFormedness ==
  /\ \A i \in 1..Len(puts) :
       (Malformed(puts[i].ptr) \/ puts[i].ptr = <<>>)
         => /\ puts[i].err = "InvalidPointer"
            /\ puts[i].at = -1
            /\ puts[i].path = <<>> /\ puts[i].wrote = {}
            /\ PostHeap(i) = puts[i].pre
  /\ (ev.op = "Eval" /\ Malformed(ev.ptr))
       => /\ ev.res.err = "InvalidPointer"
          /\ ev.res.at = -1
          /\ ev.res.val = NilV
          /\ ev.res.msg = LitInvalid \o ev.ptr

\* Put "a/0" and then Eval "a/0" on a tree whose root has the member "a"
C11_Witness ==
  /\ Len(puts) = 2
  /\ puts[1].ptr = <<"/", "a">> /\ puts[1].err = ""
  /\ puts[2].ptr = <<"a", "/", "0">> /\ puts[2].err = "InvalidPointer"
  /\ heap = puts[2].pre
  /\ ev.op = "Eval" /\ ev.ptr = <<"a", "/", "0">>
  /\ ev.res.err = "InvalidPointer"

(***************************************************************************)
(* What the properties of the Put walk are stated with.                    *)
(***************************************************************************)
\* the first n tokens of a pointer, as a pointer
PrefixPtr(ptr, n) == Concat([i \in 1..n |-> <<"/">> \o Tokens(ptr)[i]])

\* what the first n tokens of the pointer of the c-th Put resolved to before
\* that Put, and what they resolve to after it
Before(c, n) == Eval(puts[c].pre, root, PrefixPtr(puts[c].ptr, n))

After(c, n) == Eval(PostHeap(c), root, PrefixPtr(puts[c].ptr, n))

IsContainer(v) == v.k \in {"Obj", "Arr"}

Walked(c) == HasPrefix(puts[c].ptr, <<"/">>)

\* the tokens of pointer p begin with the tokens of pointer q
Extends(p, q) == IsPrefixOf(Tokens(q), Tokens(p))

(***************************************************************************)
(* C12. Auto-vivification never overwrites, as claimed: where a non-leaf   *)
(* token of a Put addresses a position that holds a container (a key of an *)
(* Obj, an index of an Arr within its length), the position holds the same *)
(* container after the Put, and every pointer into that container that     *)
(* resolved before the Put, and is neither on the way to the written leaf  *)
(* nor below it, resolves to the same result after it.                     *)
(* The code descends into the container under a key of an Obj, and puts a  *)
(* new container at an index of an Arr, whatever the element was.          *)
(***************************************************************************)
C12_NeverOverwrites_Claimed ==
  \A c \in 1..Len(puts) :
    Walked(c) =>
      \A n \in 1..(Len(Tokens(puts[c].ptr)) - 1) :
        (Before(c, n).err = "" /\ IsContainer(Before(c, n).val))
          => /\ After(c, n) = Before(c, n)
             /\ \A q \in DeepEvalPtrs :
                  (/\ HasPrefix(q, <<"/">>)
                   /\ Extends(q, PrefixPtr(puts[c].ptr, n))
                   /\ ~Extends(q, puts[c].ptr) /\ ~Extends(puts[c].ptr, q)
                   /\ Eval(puts[c].pre, root, q).err = "")
                    => Eval(PostHeap(c), root, q) = Eval(puts[c].pre, root, q)

(***************************************************************************)
(* C13. Object tokens are literal keys. Where Put, having handled token n  *)
(* of its pointer, stood on an Obj for it, the unescaped token is a key of *)
(* that Obj afterwards, whether or not it looks like an integer; the Obj   *)
(* has no elements (it was not indexed, padded or appended to); an Obj     *)
(* that was there before has its former keys and this one, its members     *)
(* under other keys as they were, and at a non-leaf token an existing      *)
(* member under the key is kept; at the last token the member is the value *)
(* given. Where Eval stands on an Obj, it returns the member under the     *)
(* unescaped token, or fails with KeyNotFound at that token.               *)
(***************************************************************************)
\* the c-th Put got past token n (tokens counted from 1)
Handled(c, n) == puts[c].err = "" \/ puts[c].at >= n

BoolTaken == fin.f = "Bool" /\ fout.stage = 1

C14_BoolTotals ==
  BoolTaken =>
    /\ fout.b \in BOOLEAN
    /\ fin.v.k = "Null" => fout.b = FALSE
    /\ fin.v.k = "Bool" => fout.b = fin.v.b
    /\ fin.v.k = "Number" => (fout.b <=> fin.v.n = 0)
    /\ fin.v.k = "String" =>
         (fout.b <=> fin.v.s \in { <<"1">>, <<"t">>, <<"T">>, <<"t","r","u","e">>,
                                   <<"T","R","U","E">>, <<"T","r","u","e">> })
    /\ (fin.v.k \in {"Obj", "Arr"} /\ fin.v.ref \in 1..Len(heap)) => fout.b = TRUE

\* Bool of the Number 3.14
C14_Witness ==
  /\ BoolTaken
  /\ fin.v = Number(314)
  /\ fout.b = FALSE

(***************************************************************************)
(* C15. One-token lookahead: every container Put creates for a non-leaf    *)
(* token (under an absent key of an Obj, at an index of an Arr, appended   *)
(* for a non-leaf -1) is an Arr exactly if the token right after it parses *)
(* as a base-10 integer, "-1" included, and an Obj otherwise, whatever the *)
(* tokens further down are.                                                *)
(***************************************************************************)
\* the value at a location: the keys and indices from the value v down
RECURSIVE AtPath(_, _, _)
AtPath(h, v, path) ==
  IF Len(path) = 0 THEN v
  ELSE AtPath(h,
              IF Head(path).idx = -1 THEN h[v.ref].m[Head(path).key]
              ELSE h[v.ref].s[Head(path).idx + 1],
              Tail(path))

\* the slots the c-th Put assigned a container it created to
Created(c) == { w \in puts[c].wrote : Len(w) < Len(Tokens(puts[c].ptr)) }

C15_OneTokenLookahead ==
  \A c \in 1..Len(puts) :
    \A w \in Created(c) :
      LET x == AtPath(PostHeap(c), root, w)
          next == Tokens(puts[c].ptr)[Len(w) + 1]
      IN /\ IsContainer(x)
         /\ x.ref > Len(puts[c].pre)
         /\ x.k = "Arr" <=> ParseInt(next).ok
         /\ x.k = PostHeap(c)[x.ref].k

\* from an empty Obj, Put "/a/0/x" created an Arr under "a" and an Obj at its
\* index 0, and Put "/a/-1/b/0" appended an Obj for "-1" and created an Arr
\* under its key "b"
C15_Witness ==
  /\ Len(puts) = 2
  /\ Origin = <<NewObj>>
  /\ puts[1].ptr = <<"/", "a", "/", "0", "/", "x">> /\ puts[1].err = ""
  /\ puts[2].ptr = <<"/", "a", "/", "-", "1", "/", "b", "/", "0">> /\ puts[2].err = ""
  /\ Cardinality(Created(1)) = 2
  /\ Cardinality(Created(2)) = 2
  /\ AtPath(heap, root, <<KeyStep(<<"a">>)>>).k = "Arr"
  /\ AtPath(heap, root, <<KeyStep(<<"a">>), IdxStep(0)>>).k = "Obj"
  /\ AtPath(heap, root, <<KeyStep(<<"a">>), IdxStep(1)>>).k = "Obj"
  /\ AtPath(heap, root, <<KeyStep(<<"a">>), IdxStep(1), KeyStep(<<"b">>)>>).k = "Arr"

(***************************************************************************)
(* C16. Negative indices in Put, as claimed: where Put comes to an Arr     *)
(* with a token that parses to a negative integer other than -1, at the    *)
(* last token or before it, it fails with IndexOutOfBounds at that token   *)
(* and the Arr is as it was.                                               *)
(* The code does so before the last token only: at the last token every    *)
(* negative index appends.                                                 *)
(***************************************************************************)
\* the c-th Put came to token n (tokens counted from 1)
CameTo(c, n) == puts[c].err = "" \/ puts[c].at >= n - 1

C16_NegativeIndices_Claimed ==
  \A c \in 1..Len(puts) :
    Walked(c) =>
      \A n \in 1..Len(Tokens(puts[c].ptr)) :
        LET stood == After(c, n - 1)
            idx == ParseInt(Unescape(Tokens(puts[c].ptr)[n]))
        IN (/\ CameTo(c, n)
            /\ stood.err = "" /\ stood.val.k = "Arr"
            /\ idx.ok /\ idx.n < 0 /\ idx.n /= -1)
             => /\ puts[c].err = "IndexOutOfBounds"
                /\ puts[c].at = n - 1
                /\ SliceIn(PostHeap(c), stood.val.ref) = SliceIn(puts[c].pre, stood.val.ref)

(***************************************************************************)
(* C17. Put never writes through a primitive, as claimed: where a non-leaf *)
(* token of a Put addresses a primitive that is there before the Put       *)
(* (under a key of an Obj, at an index of an Arr within its length), Put   *)
(* fails with NotAContainer and the primitive is still there afterwards.   *)
(* The code does so under a key of an Obj; at an index of an Arr it stores *)
(* a new container over the primitive and goes on.                         *)
(***************************************************************************)
C17_NoWriteThroughPrimitive_Claimed ==
  \A c \in 1..Len(puts) :
    Walked(c) =>
      \A n \in 1..(Len(Tokens(puts[c].ptr)) - 1) :
        (Before(c, n).err = "" /\ IsPrimitive(Before(c, n).val))
          => /\ puts[c].err = "NotAContainer"
             /\ After(c, n) = Before(c, n)

(***************************************************************************)
(* C18. Immediate read-your-write: on a tree built by Put calls from an    *)
(* empty Obj or Arr, after a successful Put of v with a pointer none of    *)
(* whose tokens is a negative integer, Eval with the same pointer, called  *)
(* right after it, succeeds and returns v.                                 *)
(***************************************************************************)
ReadsLastWrite ==
  /\ EvalOfRoot
  /\ Len(puts) > 0
  /\ ev.ptr = puts[Len(puts)].ptr
  /\ puts[Len(puts)].err = ""

C19_FailureAtomicity_Claimed ==
  \A c \in 1..Len(puts) : puts[c].err /= "" => PostHeap(c) = puts[c].pre

(***************************************************************************)
(* C20. Containers only grow: over every Put, failed or not, every         *)
(* container of the tree keeps its kind, an Arr has at least the length it *)
(* had, and an Obj has every key it had.                                   *)
(***************************************************************************)
C20_ContainersOnlyGrow ==
  \A c \in 1..Len(puts) :
    LET pre == puts[c].pre
        post == PostHeap(c)
    IN /\ Len(post) >= Len(pre)
       /\ \A r \in 1..Len(pre) :
            /\ post[r].k = pre[r].k
            /\ Len(post[r].s) >= Len(pre[r].s)
            /\ DOMAIN pre[r].m \subseteq DOMAIN post[r].m

\* on the decoded document, Put "/a/-2" made the Arr under "a" longer, and
\* Put "/a/-2/b" then failed on it
C20_Witness ==
  /\ Len(puts) = 2
  /\ Origin = DecodedDoc
  /\ puts[1].ptr = <<"/", "a", "/", "-", "2">> /\ puts[1].err = ""
  /\ puts[2].ptr = <<"/", "a", "/", "-", "2", "/", "b">> /\ puts[2].err = "IndexOutOfBounds"
  /\ Len(puts[1].pre[2].s) = 2
  /\ Len(heap[2].s) = 3
  /\ DOMAIN heap[1].m = { <<"a">>, <<"b">> }

====
